---- MODULE Spec2Model ----
(***************************************************************************)
(* A model of ex6.cpp: the driver `main` reads whitespace-separated        *)
(* numbers from a file, pairs them into 2D vectors (ingest_dvecs), forms   *)
(* every pair of vectors at distinct positions (pairwise_elts), sorts the  *)
(* pairs by the angle between the two vectors (theta_sort) and prints one  *)
(* line per pair.                                                          *)
(*                                                                         *)
(* Numbers.  Vector components are small naturals.  dot() is exact on      *)
(* them.  theta() is acos(dot/(norm*norm)); it is represented by its       *)
(* cosine, kept as the exact ratio num/sqrt(den), or by NaN when the       *)
(* divisor norm*norm is zero (0/0 in IEEE arithmetic).  acos is strictly   *)
(* decreasing on [-1,1], so angles compare as their cosines compare,       *)
(* reversed.  Rounding of sqrt and of the division is not modelled: on the *)
(* component values used here it produces no NaN and reverses no           *)
(* comparison, it can only separate two angles that are exactly equal.     *)
(*                                                                         *)
(* Streams.  A file's content is the sequence of its whitespace-separated  *)
(* tokens (operator>> skips leading whitespace, so an empty and a          *)
(* whitespace-only file are both the empty sequence).  A token is a number *)
(* or a piece of text that operator>>(double&) cannot parse.               *)
(***************************************************************************)
EXTENDS Integers, Sequences, FiniteSets, TLC

\* ------------------------------------------------------------------ bounds
\* longest file, in tokens
MaxTokens == 8
\* most command-line arguments after the program name
MaxArgs == 2
\* the numbers a token can hold: they make the vectors (0,0), (1,0), (0,1) and
\* (1,1), whose pairs have the angles 0, pi/4, pi/2 and NaN
Nums == {0, 1}

\* ------------------------------------------------------------------- state
VARIABLES
    args,       \* argv[1 .. argc-1]
    fname,      \* main: fname
    pc,         \* where the run is
    input,      \* the opened file's tokens
    instream,   \* ingest_dvecs: the istream_iterator (ok = not equal to end)
    output,     \* ingest_dvecs: output
    vecs,       \* main: vecs
    pairs,      \* theta_sort: pairs
    vecpairs,   \* main: vecpairs
    stdout,     \* the lines printed so far
    status,     \* "running", "exit0" (return 0) or "abort" (std::terminate)
    what        \* the message of the exception that ended the run

vars == <<args, fname, pc, input, instream, output, vecs, pairs, vecpairs, stdout, status, what>>

\* ------------------------------------------------------------------ tokens
Num(v) == [isnum |-> TRUE, val |-> v]
Garbage == [isnum |-> FALSE, val |-> 0]
Tokens == {Num(v) : v \in Nums} \cup {Garbage}

RECURSIVE SeqsUpTo(_, _)
SeqsUpTo(S, n) ==
    IF n = 0 THEN {<<>>}
    ELSE LET shorter == SeqsUpTo(S, n - 1)
         IN  shorter \cup {Append(s, e) : s \in {t \in shorter : Len(t) = n - 1}, e \in S}

Streams == SeqsUpTo(Tokens, MaxTokens)

\* argv[1 .. argc-1]: the arguments are opaque names, told apart by position
ArgName(i) == <<"arg", i>>
ArgLists == {[i \in 1..n |-> ArgName(i)] : n \in 0..MaxArgs}

DEFAULT_FNAME == <<"test.txt", 0>>

\* ------------------------------------------------------------------- dvec2
dot(a, b) == a[1] * b[1] + a[2] * b[2]

\* norm() is sqrt(dot(v, v)); norm2 is its square
norm2(v) == dot(v, v)

NaN == [nan |-> TRUE, num |-> 0, den |-> 1]

\* acos(dot(a, b) / (a.norm() * b.norm())), as the cosine num/sqrt(den)
theta(a, b) ==
    IF norm2(a) * norm2(b) = 0 THEN NaN
    ELSE [nan |-> FALSE, num |-> dot(a, b), den |-> norm2(a) * norm2(b)]

Abs(n) == IF n < 0 THEN -n ELSE n

\* num/sqrt(den) as a number that orders the same way: x |-> x*|x| is increasing
CosGT(s, t) == s.num * Abs(s.num) * t.den > t.num * Abs(t.num) * s.den

\* operator< and operator<= of double on two angles: false when either is NaN
ThetaLT(s, t) == ~s.nan /\ ~t.nan /\ CosGT(s, t)
ThetaLE(s, t) == ~s.nan /\ ~t.nan /\ ~CosGT(t, s)

\* ------------------------------------------------------------ ingest_dvecs
\* a slip: the last token of the stream is never extracted
StreamReadShort(in, p) ==
    IF p + 1 < Len(in) /\ in[p + 1].isnum
    THEN [ok |-> TRUE, value |-> in[p + 1].val, pos |-> p + 1]
    ELSE [ok |-> FALSE, value |-> 0, pos |-> p]

\* a slip: a token that is no number is skipped and extraction goes on
RECURSIVE StreamReadSkip(_, _)
StreamReadSkip(in, p) ==
    IF p >= Len(in) THEN [ok |-> FALSE, value |-> 0, pos |-> p]
    ELSE IF in[p + 1].isnum THEN [ok |-> TRUE, value |-> in[p + 1].val, pos |-> p + 1]
    ELSE StreamReadSkip(in, p + 1)

\* one extraction `stream >> value` of istream_iterator<double>, with `pos`
\* tokens consumed so far: it fails at the end of the stream and at a token
\* that is no number, and a failed extraction consumes nothing
StreamRead(in, p) ==
    IF p < Len(in) /\ in[p + 1].isnum
    THEN [ok |-> TRUE, value |-> in[p + 1].val, pos |-> p + 1]
    ELSE [ok |-> FALSE, value |-> 0, pos |-> p]

\* operator++ of istream_iterator: reads only while the iterator is not end
IterNext(in, it) == IF it.ok THEN StreamRead(in, it.pos) ELSE it

\* ----------------------------------------------------------- pairwise_elts
\* a slip: the pair is pushed with its components swapped
RECURSIVE InnerLoopSwapped(_, _, _, _)
InnerLoopSwapped(v, i, j, acc) ==
    IF j > Len(v) THEN acc
    ELSE InnerLoopSwapped(v, i, j + 1, Append(acc, <<v[j], v[i]>>))

\* the inner loop: it2 from `j` to end, pushing {*it, *it2}
RECURSIVE InnerLoop(_, _, _, _)
InnerLoop(v, i, j, acc) ==
    IF j > Len(v) THEN acc
    ELSE InnerLoop(v, i, j + 1, Append(acc, <<v[i], v[j]>>))

\* the outer loop: it from `i` to end
RECURSIVE OuterLoop(_, _, _)
OuterLoop(v, i, acc) ==
    IF i > Len(v) THEN acc
    ELSE OuterLoop(v, i + 1, InnerLoop(v, i, i + 1, acc))

\* a slip: pairs of equal-valued vectors are left out
pairwise_eltsDistinctValues(v) ==
    SelectSeq(OuterLoop(v, 1, <<>>), LAMBDA p : p[1] # p[2])

pairwise_elts(v) == OuterLoop(v, 1, <<>>)

\* -------------------------------------------------------------- theta_sort
\* a slip: the comparison is the wrong way round
CompDesc(x, y) == ThetaLT(theta(y[1], y[2]), theta(x[1], x[2]))

\* the lambda handed to std::sort
Comp(x, y) == ThetaLT(theta(x[1], x[2]), theta(y[1], y[2]))

Range(s) == {s[i] : i \in 1..Len(s)}

\* std::sort requires its comparator to be a strict weak ordering of the
\* elements; operator< on doubles is one unless a NaN sits between two
\* different numbers
Incomparable(x, y) == ~Comp(x, y) /\ ~Comp(y, x)
StrictWeak(S) ==
    /\ \A x \in S : ~Comp(x, x)
    /\ \A x, y, z \in S : Comp(x, y) /\ Comp(y, z) => Comp(x, z)
    /\ \A x, y, z \in S : Incomparable(x, y) /\ Incomparable(y, z) => Incomparable(x, z)

\* s without its i-th element
RemoveAt(s, i) == [k \in 1..(Len(s) - 1) |-> IF k < i THEN s[k] ELSE s[k + 1]]

FirstAt(s, e) == CHOOSE i \in 1..Len(s) : s[i] = e /\ \A k \in 1..(i - 1) : s[k] # e

\* What std::sort can leave in the vector.  It only moves elements, so the
\* result is an arrangement of the same elements.  With a strict weak
\* ordering no element of the result is preceded by one that compares
\* greater (ties in any order: std::sort is not stable).  Without one the
\* behaviour is undefined and any arrangement can come out.
RECURSIVE SortOutcomes(_, _)
SortOutcomes(s, defined) ==
    IF s = <<>> THEN {<<>>}
    ELSE UNION {
           {<<e>> \o r : r \in SortOutcomes(RemoveAt(s, FirstAt(s, e)), defined)} :
             e \in {c \in Range(s) : defined => \A d \in Range(s) : ~Comp(d, c)}}

\* s with every element kept once, at its first place
RECURSIVE Dedup(_)
Dedup(s) ==
    IF s = <<>> THEN <<>>
    ELSE <<Head(s)>> \o SelectSeq(Dedup(Tail(s)), LAMBDA e : e # Head(s))

\* a slip: equal pairs are merged, as an ordered set would merge them
StdSortUnique(s) == SortOutcomes(Dedup(s), StrictWeak(Range(s)))

StdSort(s) == SortOutcomes(s, StrictWeak(Range(s)))

\* -------------------------------------------------------------------- main
\* one printed line: the two vectors and the angle between them
Line(p) == [a |-> p[1], b |-> p[2], angle |-> theta(p[1], p[2])]

EndIter == [ok |-> FALSE, value |-> 0, pos |-> 0]

Init ==
    /\ args \in ArgLists
    /\ fname = DEFAULT_FNAME
    /\ pc = "start"
    /\ input = <<>>
    /\ instream = EndIter
    /\ output = <<>>
    /\ vecs = <<>>
    /\ pairs = <<>>
    /\ vecpairs = <<>>
    /\ stdout = <<>>
    /\ status = "running"
    /\ what = ""

\* lines 108-111: the file name
\* a slip: `argc >= 2` for `argc == 2`
ChosenNameAtLeast(a) == IF Len(a) + 1 >= 2 THEN a[1] ELSE DEFAULT_FNAME

ChosenName(a) == IF Len(a) + 1 = 2 THEN a[1] ELSE DEFAULT_FNAME

ChooseName ==
    /\ pc = "start"
    /\ fname' = ChosenName(args)
    /\ pc' = "open"
    /\ UNCHANGED <<args, input, instream, output, vecs, pairs, vecpairs, stdout, status, what>>

\* lines 113-116: the file cannot be opened
OpenFail ==
    /\ pc = "open"
    /\ pc' = "done"
    /\ status' = "abort"
    /\ what' = "no input file"
    /\ UNCHANGED <<args, fname, input, instream, output, vecs, pairs, vecpairs, stdout>>

\* line 113: the file opens, with some content
OpenOk ==
    /\ pc = "open"
    /\ \E s \in Streams : input' = s
    /\ pc' = "ingest"
    /\ UNCHANGED <<args, fname, instream, output, vecs, pairs, vecpairs, stdout, status, what>>

\* lines 64-65: the iterator is constructed, which extracts the first value
IngestBegin ==
    /\ pc = "ingest"
    /\ instream' = StreamRead(input, 0)
    /\ output' = <<>>
    /\ pc' = "loop"
    /\ UNCHANGED <<args, fname, input, vecs, pairs, vecpairs, stdout, status, what>>

\* lines 67-73, an iteration that finds both x and y
IngestPair ==
    /\ pc = "loop"
    /\ instream.ok
    /\ LET x == instream.value
           it1 == IterNext(input, instream)
       IN  /\ it1.ok
           /\ LET y == it1.value
              IN  /\ output' = Append(output, <<x, y>>)
                  /\ instream' = IterNext(input, it1)
    /\ UNCHANGED <<args, fname, pc, input, vecs, pairs, vecpairs, stdout, status, what>>

\* a slip: line 69's check is missing, and y is the iterator's stale value
IngestNoCheck ==
    /\ pc = "loop"
    /\ instream.ok
    /\ LET it1 == IterNext(input, instream)
       IN  /\ ~it1.ok
           /\ output' = Append(output, <<instream.value, instream.value>>)
           /\ instream' = it1
    /\ UNCHANGED <<args, fname, pc, input, vecs, pairs, vecpairs, stdout, status, what>>

\* a slip: the exception is caught and the run goes on with the vectors read
IngestCatch ==
    /\ pc = "loop"
    /\ instream.ok
    /\ LET it1 == IterNext(input, instream)
       IN  /\ ~it1.ok
           /\ instream' = it1
    /\ vecs' = output
    /\ pc' = "pairwise"
    /\ what' = "mismatched vector elements"
    /\ UNCHANGED <<args, fname, input, output, pairs, vecpairs, stdout, status>>

\* lines 67-70, an iteration that finds x and no y: the exception leaves
\* ingest_dvecs and main, nothing catches it
IngestThrow ==
    /\ pc = "loop"
    /\ instream.ok
    /\ LET it1 == IterNext(input, instream)
       IN  /\ ~it1.ok
           /\ instream' = it1
    /\ pc' = "done"
    /\ status' = "abort"
    /\ what' = "mismatched vector elements"
    /\ UNCHANGED <<args, fname, input, output, vecs, pairs, vecpairs, stdout>>

\* lines 67, 74 and 118: the loop ends and main receives the vectors
IngestReturn ==
    /\ pc = "loop"
    /\ ~instream.ok
    /\ vecs' = output
    /\ pc' = "pairwise"
    /\ UNCHANGED <<args, fname, input, instream, output, pairs, vecpairs, stdout, status, what>>

\* line 96
PairwiseElts ==
    /\ pc = "pairwise"
    /\ pairs' = pairwise_elts(vecs)
    /\ pc' = "sort"
    /\ UNCHANGED <<args, fname, input, instream, output, vecs, vecpairs, stdout, status, what>>

\* lines 97-100 and 119
ThetaSort ==
    /\ pc = "sort"
    /\ \E r \in StdSort(pairs) :
         /\ pairs' = r
         /\ vecpairs' = r
    /\ pc' = "print"
    /\ UNCHANGED <<args, fname, input, instream, output, vecs, stdout, status, what>>

\* lines 121-130, one iteration
PrintLine ==
    /\ pc = "print"
    /\ Len(stdout) < Len(vecpairs)
    /\ stdout' = Append(stdout, Line(vecpairs[Len(stdout) + 1]))
    /\ UNCHANGED <<args, fname, pc, input, instream, output, vecs, pairs, vecpairs, status, what>>

\* a slip: main returns before the last line is printed
Return0Early ==
    /\ pc = "print"
    /\ Len(stdout) + 1 >= Len(vecpairs)
    /\ pc' = "done"
    /\ status' = "exit0"
    /\ UNCHANGED <<args, fname, input, instream, output, vecs, pairs, vecpairs, stdout, what>>

\* line 131
Return0 ==
    /\ pc = "print"
    /\ Len(stdout) = Len(vecpairs)
    /\ pc' = "done"
    /\ status' = "exit0"
    /\ UNCHANGED <<args, fname, input, instream, output, vecs, pairs, vecpairs, stdout, what>>

Next ==
    \/ ChooseName
    \/ OpenFail
    \/ OpenOk
    \/ IngestBegin
    \/ IngestPair
    \/ IngestThrow
    \/ IngestReturn
    \/ PairwiseElts
    \/ ThetaSort
    \/ PrintLine
    \/ Return0

Spec == Init /\ [][Next]_vars

\* ------------------------------------------------------------ the properties
\* ingest_dvecs has ended, by return or by exception
PostIngest == pc \in {"pairwise", "sort", "print"} \/ (pc = "done" /\ what # "no input file")

AllNumeric(in) == \A i \in 1..Len(in) : in[i].isnum

\* how many numbers a stream holds before its first token that is no number
NumPrefixLen(in) == Cardinality({i \in 1..Len(in) : \A k \in 1..i : in[k].isnum})

\* the vectors (t(2k), t(2k+1)) of the first n tokens, n even
PairsOf(in, n) == [k \in 1..(n \div 2) |-> <<in[2 * k - 1].val, in[2 * k].val>>]

Choose2(n) == (n * (n - 1)) \div 2

\* the index pairs i < j of 1..n, and their place in lexicographic order
IdxPairs(n) == {ij \in (1..n) \X (1..n) : ij[1] < ij[2]}
LexBefore(a, b) == a[1] < b[1] \/ (a[1] = b[1] /\ a[2] < b[2])
LexRank(n, ij) == 1 + Cardinality({o \in IdxPairs(n) : LexBefore(o, ij)})

Count(s, e) == Cardinality({i \in 1..Len(s) : s[i] = e})
SameBag(s, t) == Len(s) = Len(t) /\ \A e \in Range(s) \cup Range(t) : Count(s, e) = Count(t, e)

Angle(p) == theta(p[1], p[2])
Ascending(s) == \A k \in 1..(Len(s) - 1) : ThetaLE(Angle(s[k]), Angle(s[k + 1]))
NoNaN(s) == \A k \in 1..Len(s) : ~Angle(s[k]).nan

\* C1: a stream of 2N numbers is ingested without error into the N vectors
\* (t(2k), t(2k+1)), in order; the empty stream into the empty sequence
C1_IngestRoundTrip ==
    (PostIngest /\ AllNumeric(input) /\ Len(input) % 2 = 0) =>
        /\ what = ""
        /\ status # "abort"
        /\ vecs = PairsOf(input, Len(input))
        /\ Len(vecs) = Len(input) \div 2

C1_Witness ==
    /\ pc = "pairwise"
    /\ AllNumeric(input)
    /\ Len(input) = 8
    /\ vecs = PairsOf(input, 8)
    /\ vecs[1] # vecs[2]

\* C2: a stream of an odd number of numbers makes ingest_dvecs throw
\* "mismatched vector elements"; main receives no vectors, however many
\* complete pairs came before the unpaired number
C2_OddCountThrows ==
    (PostIngest /\ AllNumeric(input) /\ Len(input) % 2 = 1) =>
        /\ pc = "done"
        /\ status = "abort"
        /\ what = "mismatched vector elements"
        /\ vecs = <<>>

C2_Witness ==
    /\ pc = "done"
    /\ what = "mismatched vector elements"
    /\ AllNumeric(input)
    /\ Len(input) = 7
    /\ Len(output) = 3

\* C3: pairwise_elts returns n(n-1)/2 pairs for n vectors, each made of the
\* vectors at two different positions, equal-valued vectors included
C3_PairwiseCount ==
    pc = "sort" =>
        /\ Len(pairs) = Choose2(Len(vecs))
        /\ \A k \in 1..Len(pairs) :
             \E ij \in IdxPairs(Len(vecs)) : pairs[k] = <<vecs[ij[1]], vecs[ij[2]]>>

C3_Witness ==
    /\ pc = "sort"
    /\ Len(vecs) = 4
    /\ vecs[1] = vecs[3]
    /\ Len(pairs) = 6

\* C4 as stated: for every input, the angles of theta_sort's result never
\* decrease from one entry to the next
C4_AscendingAlways == pc = "print" => Ascending(vecpairs)

\* C4 amended: when no pair's angle is NaN (no vector has norm 0), the
\* angles of theta_sort's result never decrease from one entry to the next
C4_AscendingWithoutNaN == (pc = "print" /\ NoNaN(vecpairs)) => Ascending(vecpairs)

C4_Witness ==
    /\ pc = "print"
    /\ Len(vecpairs) = 6
    /\ NoNaN(vecpairs)
    /\ vecpairs # pairwise_elts(vecs)
    /\ ThetaLT(Angle(vecpairs[1]), Angle(vecpairs[6]))

\* C5: a run that fails (the file does not open, or a number is left
\* unpaired) ends abnormally and has printed nothing, whatever was ingested
\* before the failure
C5_FailedRunPrintsNothing ==
    /\ (PostIngest /\ NumPrefixLen(input) % 2 = 1) => what = "mismatched vector elements"
    /\ what # "" => (pc = "done" /\ status = "abort" /\ stdout = <<>>)
    /\ status = "abort" => (what # "" /\ stdout = <<>>)

C5_Witness ==
    /\ status = "abort"
    /\ what = "mismatched vector elements"
    /\ Len(output) >= 2
    /\ stdout = <<>>

\* C6 as stated: no argument gives the default name, and otherwise the
\* first argument is the file name, further arguments being ignored
C6_FirstArgumentAlways ==
    pc # "start" => fname = (IF Len(args) = 0 THEN DEFAULT_FNAME ELSE args[1])

\* C6 amended: exactly one argument gives that argument as the file name;
\* no argument, and more than one argument, give the default name test.txt
C6_OnlyASingleArgumentIsUsed ==
    pc # "start" => fname = (IF Len(args) = 1 THEN args[1] ELSE DEFAULT_FNAME)

C6_Witness ==
    /\ pc = "done"
    /\ Len(args) = 2
    /\ fname = DEFAULT_FNAME

\* C7: theta_sort's result holds the same pairs as pairwise_elts of the
\* input, each as often, none altered or swapped; the input is not changed
C7_SortPermutes ==
    /\ [](pc = "print" =>
            /\ SameBag(vecpairs, pairwise_elts(vecs))
            /\ Len(vecpairs) = Choose2(Len(vecs)))
    /\ [][(pc \in {"pairwise", "sort", "print"}) => (vecs' = vecs)]_vars

C7_Witness ==
    /\ pc = "print"
    /\ Len(vecpairs) = 6
    /\ vecpairs # pairwise_elts(vecs)
    /\ \E j, k \in 1..6 : j # k /\ vecpairs[j] = vecpairs[k]

\* C8: the k-th pair pairwise_elts emits is (vecs[i], vecs[j]) for the k-th
\* index pair i < j in lexicographic order
C8_LexicographicEmission ==
    pc = "sort" =>
        /\ Len(pairs) = Cardinality(IdxPairs(Len(vecs)))
        /\ \A ij \in IdxPairs(Len(vecs)) :
             pairs[LexRank(Len(vecs), ij)] = <<vecs[ij[1]], vecs[ij[2]]>>

C8_Witness ==
    /\ pc = "sort"
    /\ Len(vecs) = 4
    /\ \A i, j \in 1..4 : i # j => vecs[i] # vecs[j]

\* C9: a token that is no number ends ingestion like the end of the stream:
\* after an even count of numbers the vectors made of them are returned and
\* nothing behind the token is read; after an odd count ingest_dvecs throws
C9_GarbageEndsIngestion ==
    (PostIngest /\ ~AllNumeric(input)) =>
        LET n == NumPrefixLen(input)
        IN  /\ instream.pos = n
            /\ ~instream.ok
            /\ n % 2 = 0 => (what = "" /\ vecs = PairsOf(input, n))
            /\ n % 2 = 1 => (pc = "done" /\ status = "abort"
                             /\ what = "mismatched vector elements")

C9_Witness ==
    /\ pc = "pairwise"
    /\ Len(input) = 8
    /\ ~input[5].isnum
    /\ input[6].isnum /\ input[7].isnum /\ input[8].isnum
    /\ Len(vecs) = 2

\* C10: the run goes through its phases in order; a line is printed only
\* after ingestion has ended, the lines are those of theta_sort's result in
\* its order, and a run that returns 0 has printed all n(n-1)/2 of them
PhaseRank(p) ==
    CASE p = "start" -> 0 [] p = "open" -> 1 [] p = "ingest" -> 2 [] p = "loop" -> 3
      [] p = "pairwise" -> 4 [] p = "sort" -> 5 [] p = "print" -> 6 [] p = "done" -> 7

C10_PhasesInOrder ==
    /\ [](stdout # <<>> =>
            /\ pc \in {"print", "done"}
            /\ ~instream.ok
            /\ instream.pos = NumPrefixLen(input)
            /\ vecs = PairsOf(input, NumPrefixLen(input)))
    /\ [](/\ Len(stdout) <= Len(vecpairs)
          /\ \A k \in 1..Len(stdout) : stdout[k] = Line(vecpairs[k]))
    /\ [](status = "exit0" =>
            /\ pc = "done"
            /\ Len(stdout) = Len(vecpairs)
            /\ Len(stdout) = Choose2(Len(vecs)))
    /\ [][(PhaseRank(pc') >= PhaseRank(pc)) /\ ((stdout' # stdout) => (vecpairs' = vecpairs))]_vars

C10_Witness ==
    /\ status = "exit0"
    /\ Len(stdout) = 6
    /\ stdout[1] # stdout[6]

====
